---- MODULE Spec2Model ----
(***************************************************************************)
(* Model of the validate-and-refine workflow of src/main.py: the three     *)
(* agent nodes (writer, reviewer, art director), the router, the graph     *)
(* that chains them and run_campaign_generator, which drives one campaign  *)
(* and builds the result summary.                                          *)
(*                                                                         *)
(* Texts are TLA+ strings; the Python string operations the code uses      *)
(* (in, upper, lower, strip, slicing, len) are computed character by       *)
(* character.  The emoji of the fallback templates are written "*" (one    *)
(* character each, as len() counts them); timestamps are left out of the   *)
(* log entries.                                                            *)
(***************************************************************************)
EXTENDS Integers, Sequences, FiniteSets, TLC

VARIABLES
    state,          \* CreativeWorkflowState: the graph's shared state
    pc,             \* node the graph runs next, "END", or "returned"
    steps,          \* supersteps the graph has executed in this run
    route,          \* last value returned by router_function ("" before)
    final_state,    \* last event streamed by app.stream: node :> update
    result,         \* value returned by run_campaign_generator
    user_message,   \* last request text the writer built for its LLM
    writer_llm,     \* TRUE iff the Groq writer client was constructed
    reviewer_llm,   \* TRUE iff the Groq reviewer client was constructed
    HF_CLIENT,      \* TRUE iff the Hugging Face client was constructed
    runs,           \* campaigns started in this process so far
    trace           \* history: the steps this run has executed, in order

vars == <<state, pc, steps, route, final_state, result, user_message,
          writer_llm, reviewer_llm, HF_CLIENT, runs, trace>>

-----------------------------------------------------------------------------
(* Bounds of the model *)

\* campaigns run one after the other in one process
MaxRuns == 2

\* largest attempt count the router is tried on in isolation
MaxRouterRetries == 5

\* longest feedback history the router is tried on in isolation
MaxHistory == 2

-----------------------------------------------------------------------------
(* Python values and string operations *)

\* None as the value of an Optional[str] field
None == "None"

\* None / {} as the value of a dict-valued variable
NoDict == <<>>

UpperLetters == "ABCDEFGHIJKLMNOPQRSTUVWXYZ"
LowerLetters == "abcdefghijklmnopqrstuvwxyz"

CharAt(s, i) == SubSeq(s, i, i)

\* s[:n]
Prefix(s, n) == IF Len(s) <= n THEN s ELSE SubSeq(s, 1, n)

\* p in s
Contains(s, p) ==
    \E i \in 1..(Len(s) - Len(p) + 1) : SubSeq(s, i, i + Len(p) - 1) = p

\* the letter-to-letter table that maps the letters of from to those of to
CharMap(from, to) ==
    [c \in {CharAt(from, i) : i \in 1..Len(from)} |->
        CharAt(to, CHOOSE i \in 1..Len(from) : CharAt(from, i) = c)]

ToUpper == CharMap(LowerLetters, UpperLetters)
ToLower == CharMap(UpperLetters, LowerLetters)

MapChar(c, table) == IF c \in DOMAIN table THEN table[c] ELSE c

\* the characters lo..hi of s, each mapped through the table
RECURSIVE MapStr(_, _, _, _)
MapStr(s, table, lo, hi) ==
    IF lo > hi THEN ""
    ELSE IF lo = hi THEN MapChar(CharAt(s, lo), table)
    ELSE MapStr(s, table, lo, (lo + hi) \div 2) \o MapStr(s, table, (lo + hi) \div 2 + 1, hi)

\* s.upper()
Upper(s) == MapStr(s, ToUpper, 1, Len(s))

\* s.lower()
Lower(s) == MapStr(s, ToLower, 1, Len(s))

RECURSIVE LStrip(_)
LStrip(s) ==
    IF s # "" /\ CharAt(s, 1) = " " THEN LStrip(SubSeq(s, 2, Len(s))) ELSE s

RECURSIVE RStrip(_)
RStrip(s) ==
    IF s # "" /\ CharAt(s, Len(s)) = " " THEN RStrip(SubSeq(s, 1, Len(s) - 1)) ELSE s

\* s.strip()
Strip(s) == RStrip(LStrip(s))

\* truth value of an Optional[str]
Truthy(x) == x # None /\ x # ""

\* d.get(k, default)
Get(d, k, default) == IF k \in DOMAIN d THEN d[k] ELSE default

\* x in list
InList(x, list) == \E i \in 1..Len(list) : list[i] = x

-----------------------------------------------------------------------------
(* Inputs: briefs and what the external services may answer *)

\* product descriptions given to run_campaign_generator
Briefs ==
    { "bamboo water bottle",
      "never-leak flask",
      "Toothpaste approved by dentists, with a fresh mint taste for the whole family" }

\* texts the writer LLM may return (response.content, before strip)
WriterReplies ==
    { " Sip green with our bamboo bottle! " }

\* texts the reviewer LLM may return (response.content, before strip)
ReviewerReplies ==
    { "APPROVED",
      "[CLAIM] Remove '100%' - it's unverified",
      "[TONE] Tone not approved: make it more energetic",
      " Needs work " }

\* messages of the exceptions the image service may raise
ImageErrors == { "503 Service Unavailable" }

\* int(time.time()) when the image file is named
Timestamps == { "1730000000" }

\* outcome of one call of a Groq client: a reply, or an exception
LLMOutcomes(llm, replies) ==
    IF llm
    THEN {[ok |-> TRUE, content |-> c] : c \in replies} \cup {[ok |-> FALSE, content |-> ""]}
    ELSE {[ok |-> FALSE, content |-> ""]}

\* outcome of HF_CLIENT.text_to_image and image.save: a file, or an exception
ImageOutcomes ==
    {[ok |-> TRUE, text |-> t] : t \in Timestamps} \cup
    {[ok |-> FALSE, text |-> e] : e \in ImageErrors}

-----------------------------------------------------------------------------
(* The state and the agent nodes *)

\* the initial state built by run_campaign_generator
inputs(product_description) ==
    [ user_prompt |-> product_description,
      draft_text |-> "",
      review_feedback |-> <<>>,
      final_approved_text |-> None,
      image_url |-> "",
      retries |-> 0,
      current_iteration |-> 0,
      agent_execution_log |-> <<>>,
      compliance_flags |-> <<>>,
      is_approved |-> FALSE ]

log_agent_action(s, agent_name, action, res, status) ==
    [ agent |-> agent_name,
      action |-> action,
      result_length |-> Len(res),
      status |-> status,
      iteration |-> s.current_iteration ]

\* a mutation of writer_user_message: every feedback entry is passed on
writer_user_message_whole_history(s) ==
    LET base == "Create an engaging social media ad for: " \o s.user_prompt IN
    IF s.review_feedback # <<>>
    THEN LET latest_feedback == s.review_feedback[Len(s.review_feedback)] IN
         IF ~Contains(latest_feedback, "APPROVED")
         THEN base \o "\n\nPrevious feedback: " \o s.review_feedback[1] \o " " \o latest_feedback
                   \o "\nPlease revise accordingly."
         ELSE base
    ELSE base

\* the request the writer builds for its LLM
writer_user_message(s) ==
    LET base == "Create an engaging social media ad for: " \o s.user_prompt IN
    IF s.review_feedback # <<>>
    THEN LET latest_feedback == s.review_feedback[Len(s.review_feedback)] IN
         IF ~Contains(latest_feedback, "APPROVED")
         THEN base \o "\n\nPrevious feedback: " \o latest_feedback
                   \o "\nPlease revise accordingly."
         ELSE base
    ELSE base

\* a mutation of writer_fallback_draft: the first template makes a claim
writer_fallback_draft_with_claim(s) ==
    LET product_short == Prefix(s.user_prompt, 40) IN
    IF s.review_feedback # <<>> /\ Len(s.review_feedback) > 0
    THEN "* Discover " \o product_short \o "! Eco-conscious. Quality crafted. Get yours now! *"
    ELSE "* NEW: " \o product_short \o "! 100% perfect for the modern lifestyle. Shop today! *"

\* the templated draft the writer falls back to
writer_fallback_draft(s) ==
    LET product_short == Prefix(s.user_prompt, 40) IN
    IF s.review_feedback # <<>> /\ Len(s.review_feedback) > 0
    THEN "* Discover " \o product_short \o "! Eco-conscious. Quality crafted. Get yours now! *"
    ELSE "* NEW: " \o product_short \o "! Perfect for the modern lifestyle. Shop today! *"

\* a mutation of writer_try: the failure of the service is not caught
writer_try_uncaught(s, llm) ==
    IF llm.ok
    THEN [raised |-> FALSE, draft |-> Strip(llm.content), status |-> "SUCCESS"]
    ELSE [raised |-> TRUE, draft |-> "", status |-> ""]

\* a mutation of writer_try: the fallback is logged like a service answer
writer_try_status_lost(s, llm) ==
    IF llm.ok
    THEN [raised |-> FALSE, draft |-> Strip(llm.content), status |-> "SUCCESS"]
    ELSE [raised |-> FALSE, draft |-> writer_fallback_draft(s), status |-> "SUCCESS"]

\* the try/except of writer_node: the draft and the status it logs
writer_try(s, llm) ==
    IF llm.ok
    THEN [raised |-> FALSE, draft |-> Strip(llm.content), status |-> "SUCCESS"]
    ELSE [raised |-> FALSE, draft |-> writer_fallback_draft(s), status |-> "FALLBACK"]

\* a mutation of writer_node: a new draft clears the flags
writer_node_clears_flags(s, llm) ==
    LET iteration == s.current_iteration + 1
        retries == s.retries
        t == writer_try(s, llm)
        log_entry == log_agent_action(s, "Writer", "copy_generation", t.draft, t.status)
    IN [ raised |-> t.raised,
         update |-> [ draft_text |-> t.draft,
                      current_iteration |-> iteration,
                      retries |-> retries + 1,
                      compliance_flags |-> <<>>,
                      agent_execution_log |-> Append(s.agent_execution_log, log_entry) ] ]

\* a mutation of writer_node: the attempt is not counted
writer_node_not_counted(s, llm) ==
    LET iteration == s.current_iteration + 1
        retries == s.retries
        t == writer_try(s, llm)
        log_entry == log_agent_action(s, "Writer", "copy_generation", t.draft, t.status)
    IN [ raised |-> t.raised,
         update |-> [ draft_text |-> t.draft,
                      current_iteration |-> iteration,
                      retries |-> retries,
                      agent_execution_log |-> Append(s.agent_execution_log, log_entry) ] ]

writer_node(s, llm) ==
    LET iteration == s.current_iteration + 1
        retries == s.retries
        t == writer_try(s, llm)
        log_entry == log_agent_action(s, "Writer", "copy_generation", t.draft, t.status)
    IN [ raised |-> t.raised,
         update |-> [ draft_text |-> t.draft,
                      current_iteration |-> iteration,
                      retries |-> retries + 1,
                      agent_execution_log |-> Append(s.agent_execution_log, log_entry) ] ]

banned_phrases ==
    << "100%", "guarantee", "guaranteed", "miracle", "instant results",
       "best in the world", "never", "always works", "scientifically proven",
       "approved by", "clinically tested" >>

negative_words == << "toxic", "harmful", "dangerous", "problem", "issue" >>

\* platform character ceiling of the rule-based checker
max_draft_length == 280

\* a mutation of rule_based_issues: the tone is checked before the claims
rule_based_issues_tone_first(draft) ==
    LET draft_lower == Lower(draft)
        hits == {i \in 1..Len(banned_phrases) : Contains(draft_lower, banned_phrases[i])}
        first == CHOOSE i \in hits : \A j \in hits : i <= j
        claim == IF hits # {}
                 THEN << "[CLAIM] Remove unverified claim: '" \o banned_phrases[first] \o "'" >>
                 ELSE <<>>
        tone == IF \E i \in 1..Len(negative_words) : Contains(draft_lower, negative_words[i])
                THEN << "[TONE] Avoid negative language" >>
                ELSE <<>>
        clarity == IF Len(draft) > max_draft_length
                   THEN << "[CLARITY] Keep under 280 characters for social media" >>
                   ELSE <<>>
    IN tone \o claim \o clarity

\* the rule-based compliance check: the list of issues found
rule_based_issues(draft) ==
    LET draft_lower == Lower(draft)
        hits == {i \in 1..Len(banned_phrases) : Contains(draft_lower, banned_phrases[i])}
        first == CHOOSE i \in hits : \A j \in hits : i <= j
        claim == IF hits # {}
                 THEN << "[CLAIM] Remove unverified claim: '" \o banned_phrases[first] \o "'" >>
                 ELSE <<>>
        tone == IF \E i \in 1..Len(negative_words) : Contains(draft_lower, negative_words[i])
                THEN << "[TONE] Avoid negative language" >>
                ELSE <<>>
        clarity == IF Len(draft) > max_draft_length
                   THEN << "[CLARITY] Keep under 280 characters for social media" >>
                   ELSE <<>>
    IN claim \o tone \o clarity

\* the verdict of the rule-based checker
rule_based_feedback(draft) ==
    LET issues == rule_based_issues(draft) IN
    IF issues # <<>> THEN issues[1] ELSE "APPROVED"

\* the try/except of reviewer_node: the verdict and the status it logs
reviewer_try(s, llm) ==
    IF llm.ok
    THEN [raised |-> FALSE, feedback |-> Strip(llm.content), status |-> "SUCCESS"]
    ELSE [raised |-> FALSE, feedback |-> rule_based_feedback(s.draft_text), status |-> "FALLBACK"]

\* a mutation of feedback_is_approved: the verdict is compared as a whole
feedback_is_approved_exact(feedback) == feedback = "APPROVED"

\* the reviewer's approval test
feedback_is_approved(feedback) == Contains(Upper(feedback), "APPROVED")

\* a mutation of flag_rejection: every rejection is appended
flag_rejection_no_dedup(compliance_flags, is_approved, feedback) ==
    IF ~is_approved THEN Append(compliance_flags, feedback) ELSE compliance_flags

\* a mutation of flag_rejection: every new verdict is flagged
flag_rejection_any_verdict(compliance_flags, is_approved, feedback) ==
    IF ~InList(feedback, compliance_flags)
    THEN Append(compliance_flags, feedback)
    ELSE compliance_flags

\* a mutation of flag_rejection: only the latest flag is compared
flag_rejection_last_only(compliance_flags, is_approved, feedback) ==
    IF ~is_approved /\ (compliance_flags = <<>> \/ compliance_flags[Len(compliance_flags)] # feedback)
    THEN Append(compliance_flags, feedback)
    ELSE compliance_flags

\* the reviewer records a rejection it has not recorded before
flag_rejection(compliance_flags, is_approved, feedback) ==
    IF ~is_approved /\ ~InList(feedback, compliance_flags)
    THEN Append(compliance_flags, feedback)
    ELSE compliance_flags

\* a mutation of reviewer_node: the history keeps the latest verdict only
reviewer_node_history_replaced(s, llm) ==
    LET draft == s.draft_text
        t == reviewer_try(s, llm)
        feedback == t.feedback
        is_approved == feedback_is_approved(feedback)
        approved_text == IF is_approved THEN draft ELSE s.final_approved_text
        compliance_flags == flag_rejection(s.compliance_flags, is_approved, feedback)
        log_entry == log_agent_action(s, "Reviewer", "compliance_check", feedback, t.status)
    IN [ raised |-> t.raised,
         update |-> [ review_feedback |-> << feedback >>,
                      final_approved_text |-> approved_text,
                      is_approved |-> is_approved,
                      compliance_flags |-> compliance_flags,
                      agent_execution_log |-> Append(s.agent_execution_log, log_entry) ] ]

\* a mutation of reviewer_node: the reviewed draft is kept on a rejection too
reviewer_node_always_sets(s, llm) ==
    LET draft == s.draft_text
        t == reviewer_try(s, llm)
        feedback == t.feedback
        is_approved == feedback_is_approved(feedback)
        approved_text == draft
        compliance_flags == flag_rejection(s.compliance_flags, is_approved, feedback)
        log_entry == log_agent_action(s, "Reviewer", "compliance_check", feedback, t.status)
    IN [ raised |-> t.raised,
         update |-> [ review_feedback |-> Append(s.review_feedback, feedback),
                      final_approved_text |-> approved_text,
                      is_approved |-> is_approved,
                      compliance_flags |-> compliance_flags,
                      agent_execution_log |-> Append(s.agent_execution_log, log_entry) ] ]

reviewer_node(s, llm) ==
    LET draft == s.draft_text
        t == reviewer_try(s, llm)
        feedback == t.feedback
        is_approved == feedback_is_approved(feedback)
        approved_text == IF is_approved THEN draft ELSE s.final_approved_text
        compliance_flags == flag_rejection(s.compliance_flags, is_approved, feedback)
        log_entry == log_agent_action(s, "Reviewer", "compliance_check", feedback, t.status)
    IN [ raised |-> t.raised,
         update |-> [ review_feedback |-> Append(s.review_feedback, feedback),
                      final_approved_text |-> approved_text,
                      is_approved |-> is_approved,
                      compliance_flags |-> compliance_flags,
                      agent_execution_log |-> Append(s.agent_execution_log, log_entry) ] ]

\* a mutation of generate_image_with_hf: no client, no reference
generate_image_with_hf_empty(client, img) ==
    IF ~client
    THEN ""
    ELSE IF img.ok
         THEN "Generated: campaign_output_" \o img.text \o ".png"
         ELSE "[Image generation error: " \o Prefix(img.text, 50) \o "...]"

\* the image service wrapper: it returns a reference or a status message
generate_image_with_hf(client, img) ==
    IF ~client
    THEN "Simulated image URL (no API token provided)"
    ELSE IF img.ok
         THEN "Generated: campaign_output_" \o img.text \o ".png"
         ELSE "[Image generation error: " \o Prefix(img.text, 50) \o "...]"

\* the try/except of art_director_node around generate_image_with_hf
art_director_try(client, img) ==
    [raised |-> FALSE, image_url |-> generate_image_with_hf(client, img), status |-> "SUCCESS"]

\* the copy the art director reads: state.get('final_approved_text', draft_text)
art_director_approved_text(s) ==
    IF "final_approved_text" \in DOMAIN s THEN s.final_approved_text ELSE s.draft_text

\* a mutation of art_director_node: the log is started afresh
art_director_node_log_replaced(s, client, img) ==
    LET iteration == s.current_iteration + 1
        t == art_director_try(client, img)
        log_entry == log_agent_action(s, "Art Director", "image_generation", t.image_url, t.status)
    IN [ raised |-> t.raised,
         update |-> [ image_url |-> t.image_url,
                      current_iteration |-> iteration,
                      agent_execution_log |-> << log_entry >> ] ]

\* a mutation of art_director_node: the iteration is not counted
art_director_node_not_counted(s, client, img) ==
    LET iteration == s.current_iteration
        t == art_director_try(client, img)
        log_entry == log_agent_action(s, "Art Director", "image_generation", t.image_url, t.status)
    IN [ raised |-> t.raised,
         update |-> [ image_url |-> t.image_url,
                      current_iteration |-> iteration,
                      agent_execution_log |-> Append(s.agent_execution_log, log_entry) ] ]

art_director_node(s, client, img) ==
    LET iteration == s.current_iteration + 1
        t == art_director_try(client, img)
        log_entry == log_agent_action(s, "Art Director", "image_generation", t.image_url, t.status)
    IN [ raised |-> t.raised,
         update |-> [ image_url |-> t.image_url,
                      current_iteration |-> iteration,
                      agent_execution_log |-> Append(s.agent_execution_log, log_entry) ] ]

-----------------------------------------------------------------------------
(* The router and the graph *)

\* mutations of max_retries: a ceiling raised, a ceiling lowered
max_retries_raised == 5
max_retries_lowered == 2

max_retries == 3

\* a mutation of router_function: the marker is matched in upper case only
router_function_case_sensitive(s) ==
    LET latest_feedback == IF s.review_feedback # <<>>
                           THEN s.review_feedback[Len(s.review_feedback)]
                           ELSE ""
        current_retries == s.retries
    IN IF current_retries > max_retries THEN "generate_image"
       ELSE IF Contains(latest_feedback, "APPROVED") THEN "generate_image"
       ELSE "revise_draft"

\* a mutation of router_function: the oldest feedback entry is read
router_function_first_entry(s) ==
    LET latest_feedback == IF s.review_feedback # <<>>
                           THEN s.review_feedback[1]
                           ELSE ""
        current_retries == s.retries
    IN IF current_retries > max_retries THEN "generate_image"
       ELSE IF Contains(Upper(latest_feedback), "APPROVED") THEN "generate_image"
       ELSE "revise_draft"

\* a mutation of router_function: the safety check is missing
router_function_no_ceiling(s) ==
    LET latest_feedback == IF s.review_feedback # <<>>
                           THEN s.review_feedback[Len(s.review_feedback)]
                           ELSE ""
    IN IF Contains(Upper(latest_feedback), "APPROVED") THEN "generate_image"
       ELSE "revise_draft"

\* a mutation of router_function: the ceiling is compared with >=
router_function_ge(s) ==
    LET latest_feedback == IF s.review_feedback # <<>>
                           THEN s.review_feedback[Len(s.review_feedback)]
                           ELSE ""
        current_retries == s.retries
    IN IF current_retries >= max_retries THEN "generate_image"
       ELSE IF Contains(Upper(latest_feedback), "APPROVED") THEN "generate_image"
       ELSE "revise_draft"

router_function(s) ==
    LET latest_feedback == IF s.review_feedback # <<>>
                           THEN s.review_feedback[Len(s.review_feedback)]
                           ELSE ""
        current_retries == s.retries
    IN IF current_retries > max_retries THEN "generate_image"
       ELSE IF Contains(Upper(latest_feedback), "APPROVED") THEN "generate_image"
       ELSE "revise_draft"

\* a mutation of path_map: the two targets are exchanged
path_map_exchanged(key) ==
    CASE key = "generate_image" -> "writer"
      [] key = "revise_draft" -> "art_director"
      [] key = "end" -> "END"

\* path_map of the conditional edge leaving the reviewer
path_map(key) ==
    CASE key = "generate_image" -> "art_director"
      [] key = "revise_draft" -> "writer"
      [] key = "end" -> "END"

\* a mutation of recursion_limit: a tighter step ceiling
recursion_limit_lowered == 8

\* recursion_limit handed to app.stream
recursion_limit == 10

\* how the graph merges a node's update into the state: the keys of the
\* update overwrite, every other key is kept
Merge(s, update) ==
    [k \in DOMAIN s |-> IF k \in DOMAIN update THEN update[k] ELSE s[k]]

-----------------------------------------------------------------------------
(* run_campaign_generator and the steps of the graph *)

Nodes == {"writer", "reviewer", "art_director"}

\* one entry of the history variable: the node that ran, the text it
\* produced, how its service call went, what the router answered and what
\* the LLM returned (response.content, "" if it raised or was not called)
TraceEntry(node, text, ok, key, output) ==
    [node |-> node, text |-> text, service_ok |-> ok, route |-> key, output |-> output]

\* the summary run_campaign_generator builds from the last streamed event
summary(event) ==
    LET last_node_key == CHOOSE k \in DOMAIN event : TRUE
        result_state == event[last_node_key]
        approved_copy ==
            IF Truthy(Get(result_state, "final_approved_text", None))
            THEN result_state.final_approved_text
            ELSE Get(result_state, "draft_text", "N/A")
    IN [ final_approved_text |-> approved_copy,
         image_url |-> Get(result_state, "image_url", "N/A"),
         retries |-> Get(result_state, "retries", 0),
         review_feedback |-> Get(result_state, "review_feedback", <<>>),
         compliance_flags |-> Get(result_state, "compliance_flags", <<>>),
         agent_log |-> Get(result_state, "agent_execution_log", <<>>),
         is_approved |-> Get(result_state, "is_approved", FALSE) ]

\* module load: which clients were constructed
Clients ==
    /\ writer_llm \in BOOLEAN
    /\ reviewer_llm \in BOOLEAN
    /\ reviewer_llm => writer_llm
    /\ HF_CLIENT \in BOOLEAN

\* a mutation of Begin: the flags list is shared between the runs
Begin_shared_flags(product_description) ==
    /\ state' = [inputs(product_description) EXCEPT !.compliance_flags = state.compliance_flags]
    /\ pc' = "writer"
    /\ steps' = 0
    /\ route' = ""
    /\ final_state' = NoDict
    /\ result' = NoDict
    /\ user_message' = ""
    /\ trace' = <<>>

\* entry of run_campaign_generator: the state handed to app.stream
Begin(product_description) ==
    /\ state' = inputs(product_description)
    /\ pc' = "writer"
    /\ steps' = 0
    /\ route' = ""
    /\ final_state' = NoDict
    /\ result' = NoDict
    /\ user_message' = ""
    /\ trace' = <<>>

Init ==
    /\ Clients
    /\ \E p \in Briefs : state = inputs(p)
    /\ pc = "writer"
    /\ steps = 0
    /\ route = ""
    /\ final_state = NoDict
    /\ result = NoDict
    /\ user_message = ""
    /\ runs = 1
    /\ trace = <<>>

\* an exception leaves app.stream: run_campaign_generator returns None
ReturnNone ==
    /\ pc' = "returned"
    /\ result' = NoDict
    /\ UNCHANGED <<state, steps, route, final_state>>

\* a node has run: the graph merges its update and streams the event
Superstep(node, update) ==
    /\ state' = Merge(state, update)
    /\ final_state' = (node :> update)
    /\ steps' = steps + 1

Writer ==
    /\ pc = "writer"
    /\ steps < recursion_limit
    /\ \E llm \in LLMOutcomes(writer_llm, WriterReplies) :
         LET out == writer_node(state, llm) IN
         /\ user_message' = writer_user_message(state)
         /\ IF out.raised
            THEN ReturnNone /\ UNCHANGED trace
            ELSE /\ Superstep("writer", out.update)
                 /\ pc' = "reviewer"
                 /\ trace' = Append(trace, TraceEntry("writer", out.update.draft_text, llm.ok, "",
                                                      llm.content))
                 /\ UNCHANGED <<route, result>>
    /\ UNCHANGED <<writer_llm, reviewer_llm, HF_CLIENT, runs>>

Reviewer ==
    /\ pc = "reviewer"
    /\ steps < recursion_limit
    /\ \E llm \in LLMOutcomes(reviewer_llm, ReviewerReplies) :
         LET out == reviewer_node(state, llm) IN
         IF out.raised
         THEN ReturnNone /\ UNCHANGED trace
         ELSE LET key == router_function(Merge(state, out.update))
                  verdict == out.update.review_feedback[Len(out.update.review_feedback)]
              IN /\ Superstep("reviewer", out.update)
                 /\ route' = key
                 /\ pc' = path_map(key)
                 /\ trace' = Append(trace, TraceEntry("reviewer", verdict, llm.ok, key,
                                                      llm.content))
                 /\ UNCHANGED result
    /\ UNCHANGED <<user_message, writer_llm, reviewer_llm, HF_CLIENT, runs>>

ArtDirector ==
    /\ pc = "art_director"
    /\ steps < recursion_limit
    /\ \E img \in ImageOutcomes :
         LET out == art_director_node(state, HF_CLIENT, img) IN
         IF out.raised
         THEN ReturnNone /\ UNCHANGED trace
         ELSE /\ Superstep("art_director", out.update)
              /\ pc' = "END"
              /\ trace' = Append(trace, TraceEntry("art_director", out.update.image_url,
                                                   HF_CLIENT /\ img.ok, "", ""))
              /\ UNCHANGED <<route, result>>
    /\ UNCHANGED <<user_message, writer_llm, reviewer_llm, HF_CLIENT, runs>>

\* the stream is over: the graph ended, or the recursion limit stopped it
Return ==
    /\ \/ pc = "END"
       \/ pc \in Nodes /\ steps >= recursion_limit
    /\ result' = IF pc = "END" /\ DOMAIN final_state # {}
                 THEN summary(final_state)
                 ELSE NoDict
    /\ pc' = "returned"
    /\ UNCHANGED <<state, steps, route, final_state, user_message,
                   writer_llm, reviewer_llm, HF_CLIENT, runs, trace>>

\* the caller runs the next campaign in the same process
NextCampaign ==
    /\ pc = "returned"
    /\ runs < MaxRuns
    /\ \E p \in Briefs : Begin(p)
    /\ runs' = runs + 1
    /\ UNCHANGED <<writer_llm, reviewer_llm, HF_CLIENT>>

Next == Writer \/ Reviewer \/ ArtDirector \/ Return \/ NextCampaign

Spec == Init /\ [][Next]_vars

-----------------------------------------------------------------------------
(* The router called in isolation, on any attempt count and any history *)

\* verdict texts a feedback history may hold
RouterVerdicts ==
    {Strip(r) : r \in ReviewerReplies} \cup
    {"[CLAIM] Remove unverified claim: '" \o banned_phrases[i] \o "'" : i \in {1, 10}}

RECURSIVE Histories(_)
Histories(n) ==
    IF n = 0 THEN {<<>>}
    ELSE Histories(n - 1) \cup
         {Append(h, v) : h \in {x \in Histories(n - 1) : Len(x) = n - 1}, v \in RouterVerdicts}

RouterInit ==
    /\ \E n \in 0..MaxRouterRetries, h \in Histories(MaxHistory) :
         state = [inputs("bamboo water bottle") EXCEPT !.retries = n, !.review_feedback = h]
    /\ pc = "router"
    /\ steps = 0
    /\ route = ""
    /\ final_state = NoDict
    /\ result = NoDict
    /\ user_message = ""
    /\ writer_llm = TRUE
    /\ reviewer_llm = TRUE
    /\ HF_CLIENT = TRUE
    /\ runs = 1
    /\ trace = <<>>

RouterCall ==
    /\ pc = "router"
    /\ route' = router_function(state)
    /\ pc' = "routed"
    /\ UNCHANGED <<state, steps, final_state, result, user_message,
                   writer_llm, reviewer_llm, HF_CLIENT, runs, trace>>

RouterNext == RouterCall

RouterSpec == RouterInit /\ [][RouterNext]_vars

-----------------------------------------------------------------------------
(* The rule-based checker on drafts of every kind: the writer LLM answered, *)
(* the reviewer LLM does not                                                *)

\* wordings with a banned phrase that a draft may hold ("" for none)
ClaimWordings ==
    { "", "100% pure", "Guaranteed fresh", "approved by dentists", "a MIRACLE",
      "clinically tested", "NEVER leaks" }

\* wordings with a negative word that a draft may hold ("" for none)
ToneWordings == { "", "non-toxic", "No Problem", "harmful to stains" }

RECURSIVE Dots(_)
Dots(n) ==
    IF n <= 0 THEN ""
    ELSE IF n = 1 THEN "."
    ELSE Dots(n \div 2) \o Dots(n - n \div 2)

\* lengths a draft is filled up to: none, the ceiling, one above the ceiling
FillLengths == {0, max_draft_length, max_draft_length + 1}

\* the drafts the writer LLM may have returned
CheckerDrafts ==
    { "Minty. " \o a \o " " \o b \o Dots(n - Len("Minty. " \o a \o " " \o b)) :
        <<a, b>> \in (ClaimWordings \X ToneWordings) \cup (ToneWordings \X ClaimWordings),
        n \in FillLengths }

\* the state after the writer's first step, its LLM having returned the draft
CheckerInit ==
    /\ \E d \in CheckerDrafts :
         LET llm == [ok |-> TRUE, content |-> d]
             out == writer_node(inputs("mint toothpaste"), llm)
         IN /\ state = Merge(inputs("mint toothpaste"), out.update)
            /\ final_state = ("writer" :> out.update)
            /\ trace = << TraceEntry("writer", out.update.draft_text, TRUE, "", d) >>
    /\ pc = "checker"
    /\ steps = 1
    /\ route = ""
    /\ result = NoDict
    /\ user_message = writer_user_message(inputs("mint toothpaste"))
    /\ writer_llm = TRUE
    /\ reviewer_llm = FALSE
    /\ HF_CLIENT = TRUE
    /\ runs = 1

\* the reviewer's step on its rule-based path, and the router's answer
CheckerCall ==
    /\ pc = "checker"
    /\ LET out == reviewer_node(state, [ok |-> FALSE, content |-> ""])
           key == router_function(Merge(state, out.update))
           verdict == out.update.review_feedback[Len(out.update.review_feedback)]
       IN /\ Superstep("reviewer", out.update)
          /\ route' = key
          /\ trace' = Append(trace, TraceEntry("reviewer", verdict, FALSE, key, ""))
    /\ pc' = "checked"
    /\ UNCHANGED <<result, user_message, writer_llm, reviewer_llm, HF_CLIENT, runs>>

CheckerNext == CheckerCall

CheckerSpec == CheckerInit /\ [][CheckerNext]_vars

-----------------------------------------------------------------------------
(* Vocabulary of the properties *)

Last(seq) == seq[Len(seq)]

IsWriter(e) == e.node = "writer"
IsReviewer(e) == e.node = "reviewer"
IsArtDirector(e) == e.node = "art_director"

\* the Draft Generator, Compliance Reviewer and Asset Producer steps of this run
Drafts == SelectSeq(trace, IsWriter)
Reviews == SelectSeq(trace, IsReviewer)
Assets == SelectSeq(trace, IsArtDirector)

\* the verdict carries the approval marker: APPROVED occurs in it, in any case
SignalsApproval(v) == Contains(Lower(v), "approved")

\* the workflow has ended after the Asset Producer ran
Done == pc = "END" /\ trace # <<>> /\ Last(trace).node = "art_director"

\* run_campaign_generator has returned a result record, not None
ReturnedRecord == pc = "returned" /\ DOMAIN result # {}

-----------------------------------------------------------------------------
(* Properties *)

\* C1 - Termination: whatever the brief, the verdicts and the service
\* failures, a campaign run executes at most 3 + 10 = 13 steps, as long as it
\* has not reached DONE its next step can run (the step ceiling does not stop
\* it), and when it is over it has reached DONE: the Asset Producer has run
\* and the workflow has ended.
C1_Termination ==
    /\ Len(trace) <= 13
    /\ steps = Len(trace)
    /\ pc \in Nodes => steps < recursion_limit
    /\ pc \in {"END", "returned"} => (trace # <<>> /\ Last(trace).node = "art_director")

\* C1 witness: the longest run, 4 drafts, 4 reviews and the image, is done.
C1_Witness == Done /\ Len(trace) = 9 /\ Len(Drafts) = 4

\* C2 - Forced proceed: called with an attempt count above the ceiling 3, the
\* router returns generate_image whatever the latest feedback entry is.
C2_ForcedProceed == (pc = "routed" /\ state.retries > 3) => route = "generate_image"

\* C2 witness: above the ceiling the router proceeds on a rejection.
C2_Witness ==
    /\ pc = "routed"
    /\ state.retries > 3
    /\ state.review_feedback # <<>>
    /\ Last(state.review_feedback) = "[CLAIM] Remove '100%' - it's unverified"
    /\ route = "generate_image"

\* C3 - Router below the ceiling: called with an attempt count of at most 3,
\* the router returns generate_image if the latest feedback entry signals
\* approval and revise_draft otherwise, in particular on an empty history.
C3_RouterBelowCeiling ==
    (pc = "routed" /\ state.retries <= 3) =>
        route = IF state.review_feedback # <<>> /\ SignalsApproval(Last(state.review_feedback))
                THEN "generate_image"
                ELSE "revise_draft"

\* C3 witness: at the ceiling itself a rejection is still sent back.
C3_Witness ==
    /\ pc = "routed"
    /\ state.retries = 3
    /\ state.review_feedback # <<>>
    /\ ~SignalsApproval(Last(state.review_feedback))
    /\ route = "revise_draft"

\* C4 - Approval invariant, as claimed: is_approved is true exactly when the
\* feedback history is not empty and its latest entry is the literal verdict
\* APPROVED.
C4_ApprovalInvariant ==
    state.is_approved <=>
        (state.review_feedback # <<>> /\ Last(state.review_feedback) = "APPROVED")

\* C5 - Summary reflects the final state, as claimed: the returned summary has
\* the number of Draft Generator invocations as retries, the full feedback
\* history, the compliance flags and the approval flag of the final state.
C5_SummaryReflectsState ==
    ReturnedRecord =>
        /\ result.retries = Len(Drafts)
        /\ result.review_feedback = state.review_feedback
        /\ Len(result.review_feedback) = Len(Reviews)
        /\ result.compliance_flags = state.compliance_flags
        /\ result.is_approved = state.is_approved

\* C6 - Result copy, as claimed: the final_approved_text of the returned
\* summary is the approved draft after an approval and the latest draft after
\* a forced proceed.
C6_ResultCopy ==
    ReturnedRecord =>
        result.final_approved_text =
            IF state.is_approved THEN state.final_approved_text ELSE state.draft_text

\* the reviewer has rejected every draft of this run
AllRejected == \A i \in 1..Len(Reviews) : ~SignalsApproval(Reviews[i].text)

\* C7 - Always-reject scenario: when a run in which the reviewer rejected
\* every draft has ended, the Draft Generator ran exactly 4 times, the router
\* answered revise after reviews 1-3 and proceed after review 4, the Asset
\* Producer ran exactly once, is_approved is false, approved_text is unset
\* and image_reference is not empty.
C7_AlwaysReject ==
    (pc \in {"END", "returned"} /\ AllRejected) =>
        /\ Len(Drafts) = 4
        /\ Len(Reviews) = 4
        /\ \A i \in 1..3 : Reviews[i].route = "revise_draft"
        /\ Reviews[4].route = "generate_image"
        /\ Len(Assets) = 1
        /\ ~state.is_approved
        /\ state.final_approved_text = None
        /\ state.image_url # ""

\* C7 witness: a run of four rejections has ended.
C7_Witness == Done /\ AllRejected /\ Len(Reviews) = 4

\* the reviewer rejected attempts 1 and 2 and approved attempt 3
RejectRejectApprove ==
    /\ Len(Reviews) >= 3
    /\ ~SignalsApproval(Reviews[1].text)
    /\ ~SignalsApproval(Reviews[2].text)
    /\ SignalsApproval(Reviews[3].text)

\* C8 - Reject-reject-approve scenario: when such a run has ended,
\* attempt_count is 3, is_approved is true, the feedback history has 3
\* entries, compliance_flags has 1 entry if the two rejections are the same
\* text and 2 if they differ, approved_text is the third draft and the Asset
\* Producer ran exactly once.
C8_RejectRejectApprove ==
    (pc \in {"END", "returned"} /\ RejectRejectApprove) =>
        /\ state.retries = 3
        /\ Len(Drafts) = 3
        /\ state.is_approved
        /\ Len(state.review_feedback) = 3
        /\ Len(state.compliance_flags) = IF Reviews[1].text = Reviews[2].text THEN 1 ELSE 2
        /\ state.final_approved_text = Drafts[3].text
        /\ Len(Assets) = 1

\* C8 witness: such a run has ended, its two rejections being the same text.
C8_Witness == Done /\ RejectRejectApprove /\ Reviews[1].text = Reviews[2].text

\* C9 - Service failures never abort the campaign: whenever
\* run_campaign_generator has returned, whatever calls failed, the workflow
\* had reached DONE and the value returned is a result record, not None.
C9_FailuresNeverAbort ==
    pc = "returned" =>
        /\ DOMAIN result # {}
        /\ trace # <<>>
        /\ Last(trace).node = "art_director"

\* C9 witness: a run in which every writer, reviewer and image call failed
\* has returned a record.
C9_Witness ==
    /\ ReturnedRecord
    /\ HF_CLIENT
    /\ \A i \in 1..Len(trace) : ~trace[i].service_ok

\* the execution log has one entry per step, and the entry of every Draft
\* Generator and Compliance Reviewer step names the agent and shows SUCCESS
\* if the service answered and the given status if the fallback was used
StatusLogged(degraded) ==
    /\ Len(state.agent_execution_log) = Len(trace)
    /\ \A i \in 1..Len(trace) :
         trace[i].node \in {"writer", "reviewer"} =>
            /\ state.agent_execution_log[i].agent =
                  (IF trace[i].node = "writer" THEN "Writer" ELSE "Reviewer")
            /\ state.agent_execution_log[i].status =
                  (IF trace[i].service_ok THEN "SUCCESS" ELSE degraded)

-----------------------------------------------------------------------------
(* Properties of the steps *)

\* this step is an execution of the given node
StepOf(node) == Len(trace') = Len(trace) + 1 /\ Last(trace').node = node

\* this step starts the next campaign run
NewRun == pc = "returned" /\ pc' = "writer"

\* seq is a prefix of longer
IsPrefix(seq, longer) ==
    Len(seq) <= Len(longer) /\ SubSeq(longer, 1, Len(seq)) = seq

\* C11 - Attempt counter: retries is 0 when a run starts, every Draft
\* Generator step adds exactly 1 to it, on the service path and on the
\* fallback path, every Compliance Reviewer step (the Router's decision
\* included) and every Asset Producer step leaves it unchanged, and it never
\* decreases within a run.
C11_AttemptCounter ==
    /\ [](trace = <<>> => state.retries = 0)
    /\ [][ /\ StepOf("writer") => state'.retries = state.retries + 1
           /\ StepOf("reviewer") => state'.retries = state.retries
           /\ StepOf("art_director") => state'.retries = state.retries
           /\ ~NewRun => state'.retries >= state.retries ]_vars

\* C11 witness: a run whose first draft came from the fallback and whose
\* second came from the service has ended with both attempts counted.
C11_Witness ==
    /\ Done
    /\ Len(Drafts) >= 2
    /\ ~Drafts[1].service_ok
    /\ Drafts[2].service_ok
    /\ state.retries = Len(Drafts)

\* C12 - Iteration counter: current_iteration is retries plus 1 if the Asset
\* Producer has run, every Draft Generator step and every Asset Producer
\* step, image produced or not, adds exactly 1 to it, every Compliance
\* Reviewer step leaves it unchanged, and it never decreases within a run.
C12_IterationCounter ==
    /\ [](state.current_iteration = state.retries + Len(Assets))
    /\ [][ /\ StepOf("writer") => state'.current_iteration = state.current_iteration + 1
           /\ StepOf("art_director") => state'.current_iteration = state.current_iteration + 1
           /\ StepOf("reviewer") => state'.current_iteration = state.current_iteration
           /\ ~NewRun => state'.current_iteration >= state.current_iteration ]_vars

\* C12 witness: the Asset Producer ran after two attempts and produced no
\* image, and the iteration count is 3.
C12_Witness ==
    /\ Done
    /\ ~Last(trace).service_ok
    /\ state.retries = 2
    /\ state.current_iteration = 3

\* C13 - Feedback history is append-only: every Compliance Reviewer step, on
\* the service path and on the rule-based path, appends exactly its verdict
\* to the end of review_feedback, every other step leaves review_feedback
\* unchanged, and within a run the history before a step is a prefix of the
\* history after it.
C13_HistoryAppendOnly ==
    [][ /\ StepOf("reviewer") =>
              state'.review_feedback = Append(state.review_feedback, Last(trace').text)
        /\ (StepOf("writer") \/ StepOf("art_director")) =>
              state'.review_feedback = state.review_feedback
        /\ ~NewRun => IsPrefix(state.review_feedback, state'.review_feedback) ]_vars

\* C13 witness: the history holds a verdict of the service followed by a
\* verdict of the rule-based checker.
C13_Witness ==
    /\ Len(Reviews) = 2
    /\ Reviews[1].service_ok
    /\ ~Reviews[2].service_ok
    /\ state.review_feedback = << Reviews[1].text, Reviews[2].text >>

\* no two entries of seq are equal
NoDuplicates(seq) == \A i, j \in 1..Len(seq) : seq[i] = seq[j] => i = j

\* C14 - Flag deduplication: compliance_flags never holds two equal
\* entries, and a review step whose rejection verdict is already in
\* compliance_flags leaves compliance_flags unchanged.
C14_FlagDeduplication ==
    /\ [](NoDuplicates(state.compliance_flags))
    /\ [][ (/\ StepOf("reviewer")
            /\ ~SignalsApproval(Last(trace').text)
            /\ InList(Last(trace').text, state.compliance_flags))
           => state'.compliance_flags = state.compliance_flags ]_vars

\* C14 witness: the same rejection text came back after a different one, and
\* it is flagged once.
C14_Witness ==
    /\ Len(Reviews) = 3
    /\ Reviews[1].text = Reviews[3].text
    /\ Reviews[1].text # Reviews[2].text
    /\ \A i \in 1..3 : ~SignalsApproval(Reviews[i].text)
    /\ state.compliance_flags = << Reviews[1].text, Reviews[2].text >>

\* the reviews of this run whose verdict signals approval
Approvals == {i \in 1..Len(Reviews) : SignalsApproval(Reviews[i].text)}

\* C15 - approved_text is set once and never cleared: final_approved_text is
\* unset exactly as long as no verdict has signalled approval, at most one
\* review of a run signals approval, the review step whose verdict signals
\* approval sets it to the draft that was reviewed, a rejecting review step
\* leaves it unchanged, and no other step of the run changes it.
C15_ApprovedTextSetOnce ==
    /\ [](state.final_approved_text = None <=> Approvals = {})
    /\ [](Cardinality(Approvals) <= 1)
    /\ [][ /\ StepOf("reviewer") =>
                 state'.final_approved_text =
                     IF SignalsApproval(Last(trace').text)
                     THEN state.draft_text
                     ELSE state.final_approved_text
           /\ (StepOf("writer") \/ StepOf("art_director")) =>
                 state'.final_approved_text = state.final_approved_text
           /\ (~NewRun /\ state.final_approved_text # None) =>
                 state'.final_approved_text = state.final_approved_text ]_vars

\* C15 witness: the second draft was approved after a rejection, and it is
\* still the approved text after the Asset Producer has run.
C15_Witness ==
    /\ Done
    /\ Len(Reviews) = 2
    /\ ~SignalsApproval(Reviews[1].text)
    /\ SignalsApproval(Reviews[2].text)
    /\ Drafts[1].text # Drafts[2].text
    /\ state.final_approved_text = Drafts[2].text

\* C16 - Rule-based rejection is a rejection, as claimed: a review step on
\* the rule-based path whose draft holds a banned phrase or a negative word
\* or is longer than 280 characters leaves is_approved false and
\* final_approved_text unchanged, has its verdict in compliance_flags, and
\* the router answers revise_draft while retries is at most 3.
C16_RuleBasedRejection ==
    [][ (/\ StepOf("reviewer")
         /\ ~Last(trace').service_ok
         /\ rule_based_issues(state.draft_text) # <<>>)
        => /\ ~state'.is_approved
           /\ state'.final_approved_text = state.final_approved_text
           /\ InList(Last(trace').text, state'.compliance_flags)
           /\ (state'.retries <= 3 => route' = "revise_draft") ]_vars

\* C17 - Feedback propagation, as claimed, in the case the claim names: when
\* a draft of the fallback template was rejected and the next draft comes
\* from the fallback template too, the next draft differs from the rejected
\* one.
C17_FeedbackPropagation ==
    \A i \in 1..Len(Reviews) :
        (/\ ~SignalsApproval(Reviews[i].text)
         /\ i < Len(Drafts)
         /\ ~Drafts[i].service_ok
         /\ ~Drafts[i + 1].service_ok)
        => Drafts[i + 1].text # Drafts[i].text

\* C19 - Asset Producer failure handling, as claimed: every Asset Producer
\* step stores a non-empty image_url, and its log entry shows SUCCESS if an
\* image was produced and ERROR if the image service was unavailable or
\* raised.
C19_AssetFailureLogged ==
    \A i \in 1..Len(trace) :
        trace[i].node = "art_director" =>
            /\ state.image_url # ""
            /\ Len(state.agent_execution_log) >= i
            /\ state.agent_execution_log[i].agent = "Art Director"
            /\ state.agent_execution_log[i].status =
                  (IF trace[i].service_ok THEN "SUCCESS" ELSE "ERROR")

\* the category tags of a rejection message
Tags == {"[CLAIM]", "[TONE]", "[CLARITY]", "[OTHER]"}

\* the reviewer's output carries neither the approval marker nor a tag
Malformed(output) ==
    ~SignalsApproval(output) /\ \A t \in Tags : ~Contains(output, t)

\* C20 - Malformed verdict, as claimed: a review step whose service output is
\* malformed leaves is_approved false and final_approved_text unchanged,
\* records a verdict that carries the OTHER category, and the router answers
\* revise_draft or generate_image, so that the run goes on.
C20_MalformedVerdict ==
    [][ (/\ StepOf("reviewer")
         /\ Last(trace').service_ok
         /\ Malformed(Last(trace').output))
        => /\ ~state'.is_approved
           /\ state'.final_approved_text = state.final_approved_text
           /\ Contains(Last(state'.review_feedback), "[OTHER]")
           /\ route' \in {"revise_draft", "generate_image"}
           /\ pc' \in {"writer", "art_director"} ]_vars

\* the step the graph runs after the step of this trace entry
NextNode(e) ==
    CASE e.node = "writer" -> "reviewer"
      [] e.node = "reviewer" -> (IF e.route = "revise_draft" THEN "writer" ELSE "art_director")
      [] e.node = "art_director" -> "END"

\* C21 - Workflow ordering: a run starts with the Draft Generator, every
\* Draft Generator step is followed by a Compliance Reviewer step, a review
\* is followed by the Draft Generator if the router answered revise_draft and
\* by the Asset Producer otherwise, and the Asset Producer runs at most once,
\* exactly once in a run that is over, as the last step.
C21_WorkflowOrdering ==
    /\ trace = <<>> => pc = "writer"
    /\ trace # <<>> => trace[1].node = "writer"
    /\ \A i \in 1..(Len(trace) - 1) : trace[i + 1].node = NextNode(trace[i])
    /\ (trace # <<>> /\ pc # "returned") => pc = NextNode(Last(trace))
    /\ Len(Assets) <= 1
    /\ pc \in {"END", "returned"} => (Len(Assets) = 1 /\ Last(trace).node = "art_director")

\* C21 witness: a run of draft, rejection, draft, approval, image has ended.
C21_Witness ==
    /\ Done
    /\ Len(trace) = 5
    /\ Reviews[1].route = "revise_draft"
    /\ Reviews[2].route = "generate_image"

\* the latest feedback entry of a state, "" if there is none
Latest(s) == IF s.review_feedback # <<>> THEN Last(s.review_feedback) ELSE ""

\* states the router may be handed: any attempt count, history, brief, draft
\* and approval flag
RouterStates ==
    {[inputs(p) EXCEPT !.retries = n, !.review_feedback = h,
                       !.draft_text = p, !.is_approved = b] :
        p \in {"bamboo water bottle", "never-leak flask"},
        n \in 0..MaxRouterRetries, h \in Histories(MaxHistory), b \in BOOLEAN}

\* C22 - Router purity: a call of the router leaves every field of the state
\* unchanged, and its answer is the answer it gives on every other state that
\* has the same attempt count and the same latest feedback entry, whatever
\* the earlier entries, the brief, the draft and the approval flag are.
C22_RouterPurity ==
    /\ [][(pc = "router" /\ pc' = "routed") => state' = state]_vars
    /\ [](pc = "routed" =>
            \A s2 \in RouterStates :
                (s2.retries = state.retries /\ Latest(s2) = Latest(state))
                => router_function(s2) = route)

\* C22 witness: the router sent back a history whose earlier entry signals
\* approval and whose latest entry is a rejection.
C22_Witness ==
    /\ pc = "routed"
    /\ state.retries <= 3
    /\ Len(state.review_feedback) = 2
    /\ SignalsApproval(state.review_feedback[1])
    /\ ~SignalsApproval(state.review_feedback[2])
    /\ route = "revise_draft"

\* C23 - Retry ceiling as a cap on attempts, as claimed: a run never has more
\* than 3 drafts, and after a rejection of the third draft the router answers
\* generate_image.
C23_AttemptsCappedAtCeiling ==
    /\ Len(Drafts) <= 3
    /\ (Len(Reviews) >= 3 /\ ~SignalsApproval(Reviews[3].text))
           => Reviews[3].route = "generate_image"

\* C23, amended - the cap is one above the ceiling: a run never has more than
\* 4 drafts, after a rejection of the third draft the router still answers
\* revise_draft, and after a rejection of the fourth it answers
\* generate_image.
C23_AttemptsCappedAboveCeiling ==
    /\ Len(Drafts) <= max_retries + 1
    /\ (Len(Reviews) >= 3 /\ ~SignalsApproval(Reviews[3].text))
           => Reviews[3].route = "revise_draft"
    /\ (Len(Reviews) >= 4 /\ ~SignalsApproval(Reviews[4].text))
           => Reviews[4].route = "generate_image"

\* C23 witness: the fourth draft was rejected and the router proceeded.
C23_Witness ==
    /\ Len(Drafts) = 4
    /\ Len(Reviews) = 4
    /\ ~SignalsApproval(Reviews[4].text)
    /\ Reviews[4].route = "generate_image"
    /\ pc = "art_director"

\* C24 - Bounded revisions: retries is at most 4 in every reachable state, a
\* run has at most 3 revisions after its first draft and at most 4 reviews.
C24_BoundedRevisions ==
    /\ state.retries <= 4
    /\ Len(Drafts) - 1 <= 3
    /\ Len(Reviews) <= 4

\* C24 witness: a run has had its fourth review.
C24_Witness == state.retries = 4 /\ Len(Reviews) = 4 /\ Len(Assets) = 0

\* the draft holds one of the wordings with a banned phrase
HasClaimWording(d) == \E w \in ClaimWordings : w # "" /\ Contains(d, w)

\* the draft holds one of the wordings with a negative word
HasToneWording(d) == \E w \in ToneWordings : w # "" /\ Contains(d, w)

\* C25 - Rule-based checker order: on the rule-based path the reviewer
\* records exactly one verdict, which is a [CLAIM] verdict if the draft holds
\* a banned phrase, whatever else it holds, else the [TONE] verdict if it
\* holds a negative word, even if over-length, else the [CLARITY] verdict if
\* it is longer than 280 characters, else APPROVED.
C25_RuleOrder ==
    pc = "checked" =>
        /\ Len(state.review_feedback) = 1
        /\ Last(trace).text = state.review_feedback[1]
        /\ IF HasClaimWording(state.draft_text)
           THEN Prefix(state.review_feedback[1], 33) = "[CLAIM] Remove unverified claim: "
           ELSE IF HasToneWording(state.draft_text)
           THEN state.review_feedback[1] = "[TONE] Avoid negative language"
           ELSE IF Len(state.draft_text) > 280
           THEN state.review_feedback[1] = "[CLARITY] Keep under 280 characters for social media"
           ELSE state.review_feedback[1] = "APPROVED"

\* C25 witness: an over-length draft in which a negative word comes before a
\* banned phrase got a [CLAIM] verdict.
C25_Witness ==
    /\ pc = "checked"
    /\ Len(state.draft_text) > 280
    /\ Contains(state.draft_text, "non-toxic 100% pure")
    /\ state.review_feedback = << "[CLAIM] Remove unverified claim: '100%'" >>

\* the agent name a node logs
AgentName(node) ==
    CASE node = "writer" -> "Writer"
      [] node = "reviewer" -> "Reviewer"
      [] node = "art_director" -> "Art Director"

\* C26 - Execution log is an append-only audit trail: the log has one entry
\* per step executed so far, the agent names in it are the agents of the
\* steps in the order they ran, every step appends exactly one entry naming
\* its agent, and within a run the log before a step is a prefix of the log
\* after it.
C26_LogAppendOnly ==
    /\ [](/\ Len(state.agent_execution_log) = Len(trace)
          /\ \A i \in 1..Len(trace) :
                state.agent_execution_log[i].agent = AgentName(trace[i].node))
    /\ [][ /\ (\E n \in Nodes : StepOf(n)) =>
                 /\ Len(state'.agent_execution_log) = Len(state.agent_execution_log) + 1
                 /\ Last(state'.agent_execution_log).agent = AgentName(Last(trace').node)
           /\ ~NewRun => IsPrefix(state.agent_execution_log, state'.agent_execution_log) ]_vars

\* C26 witness: after draft, rejection, draft, approval and image the log
\* names the five agents in that order.
C26_Witness ==
    /\ Done
    /\ Len(state.agent_execution_log) = 5
    /\ [i \in 1..5 |-> state.agent_execution_log[i].agent] =
          << "Writer", "Reviewer", "Writer", "Reviewer", "Art Director" >>

\* the request for an original draft, from the brief alone
BriefRequest(s) == "Create an engaging social media ad for: " \o s.user_prompt

\* C27 - Only the latest feedback is passed forward: the request of a Draft
\* Generator step is the request from the brief alone if the feedback history
\* was empty or its latest entry signals approval, and otherwise that request
\* followed by the latest feedback entry; no earlier entry that differs from
\* the latest occurs in it.
C27_LatestFeedbackOnly ==
    (trace # <<>> /\ Last(trace).node = "writer") =>
        /\ user_message =
              IF state.review_feedback = <<>> \/ SignalsApproval(Latest(state))
              THEN BriefRequest(state)
              ELSE BriefRequest(state) \o "\n\nPrevious feedback: " \o Latest(state)
                                       \o "\nPlease revise accordingly."
        /\ \A i \in 1..(Len(state.review_feedback) - 1) :
              state.review_feedback[i] # Latest(state)
              => ~Contains(user_message, state.review_feedback[i])

\* C27 witness: the third draft was requested after two different
\* rejections, and the request holds the second.
C27_Witness ==
    /\ Len(Drafts) = 3
    /\ Last(trace).node = "writer"
    /\ Len(state.review_feedback) = 2
    /\ state.review_feedback[1] # state.review_feedback[2]
    /\ Contains(user_message, state.review_feedback[2])

\* C28 - Asset Producer copy input, as claimed: the copy the Asset Producer
\* reads is final_approved_text when it is set and the latest draft when it
\* is unset; it is never the unset value.
C28_AssetCopyInput ==
    pc = "art_director" =>
        /\ art_director_approved_text(state) # None
        /\ art_director_approved_text(state) =
              IF state.final_approved_text # None
              THEN state.final_approved_text
              ELSE state.draft_text

\* the fields of the state
Fields == DOMAIN inputs("")

\* this step leaves the given fields of the state unchanged
Kept(fields) == \A f \in fields : state'[f] = state[f]

\* C29 - Frame of the steps: no step of a run changes user_prompt; a Draft
\* Generator step changes at most draft_text, retries, current_iteration and
\* agent_execution_log; a Compliance Reviewer step leaves draft_text,
\* retries, current_iteration and image_url unchanged; an Asset Producer step
\* changes at most image_url, current_iteration and agent_execution_log.
C29_Frames ==
    [][ /\ ~NewRun => Kept({"user_prompt"})
        /\ StepOf("writer") =>
              Kept(Fields \ {"draft_text", "retries", "current_iteration",
                             "agent_execution_log"})
        /\ StepOf("reviewer") =>
              Kept({"draft_text", "retries", "current_iteration", "image_url"})
        /\ StepOf("art_director") =>
              Kept(Fields \ {"image_url", "current_iteration",
                             "agent_execution_log"}) ]_vars

\* C29 witness: a run with a revision and a flagged rejection has ended with
\* its brief, its flags and its feedback in place.
C29_Witness ==
    /\ Done
    /\ Len(Drafts) >= 2
    /\ state.user_prompt = "never-leak flask"
    /\ state.compliance_flags # <<>>
    /\ Len(state.review_feedback) = Len(Reviews)

\* the rejections among the first n entries of a history, each once, in
\* order of first occurrence
RECURSIVE DistinctRejections(_, _)
DistinctRejections(h, n) ==
    IF n = 0 THEN <<>>
    ELSE IF ~SignalsApproval(h[n]) /\ ~InList(h[n], SubSeq(h, 1, n - 1))
         THEN Append(DistinctRejections(h, n - 1), h[n])
         ELSE DistinctRejections(h, n - 1)

\* C30 - compliance_flags is exactly the rejections seen: compliance_flags
\* is the sequence of distinct rejection verdicts of review_feedback in order
\* of first occurrence, no entry of it signals approval, and every rejection
\* in review_feedback is an entry of it.
C30_FlagsAreRejections ==
    /\ state.compliance_flags =
          DistinctRejections(state.review_feedback, Len(state.review_feedback))
    /\ \A i \in 1..Len(state.compliance_flags) : ~SignalsApproval(state.compliance_flags[i])
    /\ \A i \in 1..Len(state.review_feedback) :
          ~SignalsApproval(state.review_feedback[i])
          => InList(state.review_feedback[i], state.compliance_flags)

\* C30 witness: a rejection, a different one, the first again and an
\* approval leave two flags.
C30_Witness ==
    /\ Len(state.review_feedback) = 4
    /\ state.review_feedback[1] = state.review_feedback[3]
    /\ state.review_feedback[1] # state.review_feedback[2]
    /\ ~SignalsApproval(state.review_feedback[1])
    /\ ~SignalsApproval(state.review_feedback[2])
    /\ SignalsApproval(state.review_feedback[4])
    /\ state.compliance_flags = << state.review_feedback[1], state.review_feedback[2] >>

\* the three forms of a reference the Asset Producer stores
IsImageReference(url) ==
    \/ url = "Simulated image URL (no API token provided)"
    \/ Prefix(url, 27) = "Generated: campaign_output_"
    \/ Prefix(url, 25) = "[Image generation error: "

\* C31 - image_reference lifecycle: image_url is the empty string in every
\* state of a run in which the Asset Producer has not run, and after it has
\* run it is the non-empty reference that step produced: a generated-file
\* reference, the simulated-image message or an error placeholder.
C31_ImageReferenceLifecycle ==
    /\ Len(Assets) = 0 => state.image_url = ""
    /\ Len(Assets) >= 1 =>
          /\ state.image_url # ""
          /\ state.image_url = Assets[1].text
          /\ IsImageReference(state.image_url)

\* C31 witness: a forced-proceed run whose image call raised has ended with
\* an error placeholder.
C31_Witness ==
    /\ Done
    /\ ~state.is_approved
    /\ Prefix(state.image_url, 25) = "[Image generation error: "

\* C32 - Campaign isolation across runs: every run starts from the state
\* with all fields at their defaults, and in every state of a run the
\* feedback history, the flags, the counters and the log hold what the steps
\* of this run produced and nothing of an earlier run.
C32_CampaignIsolation ==
    /\ [](trace = <<>> => state = inputs(state.user_prompt))
    /\ [](/\ state.review_feedback = [i \in 1..Len(Reviews) |-> Reviews[i].text]
          /\ \A i \in 1..Len(state.compliance_flags) :
                InList(state.compliance_flags[i], state.review_feedback)
          /\ state.retries = Len(Drafts)
          /\ Len(state.agent_execution_log) = Len(trace))
    /\ [][NewRun => (runs' = runs + 1 /\ \E p \in Briefs : state' = inputs(p))]_vars

\* C32 witness: the second run of the process is under way and has its own
\* single rejection flagged.
C32_Witness ==
    /\ runs = 2
    /\ Len(Reviews) = 1
    /\ state.compliance_flags = << Reviews[1].text >>
    /\ state.retries = 1

\* C33 - Counter/history coupling: the length of review_feedback is retries
\* minus 1 between a Draft Generator step and the review that follows it,
\* and retries in every other state of a run; every review has its own
\* Draft Generator step before it.
C33_CounterHistoryCoupling ==
    /\ Len(state.review_feedback) =
          IF trace # <<>> /\ Last(trace).node = "writer"
          THEN state.retries - 1
          ELSE state.retries
    /\ Len(Reviews) = Len(state.review_feedback)
    /\ Len(Drafts) \in {Len(Reviews), Len(Reviews) + 1}

\* C33 witness: the third draft waits for its review with two verdicts in
\* the history.
C33_Witness ==
    /\ pc = "reviewer"
    /\ state.retries = 3
    /\ Len(state.review_feedback) = 2

\* C34 - Reviewer and Router agree on approval: after every review with
\* retries at most 3, the router answered generate_image exactly if the
\* reviewer set is_approved for that verdict.
C34_ReviewerRouterAgree ==
    (trace # <<>> /\ Last(trace).node = "reviewer" /\ state.retries <= 3) =>
        (Last(trace).route = "generate_image" <=> state.is_approved)

\* C34 witness: a verdict that holds the marker in lower case was recorded
\* as approved and routed to the Asset Producer.
C34_Witness ==
    /\ trace # <<>>
    /\ Last(trace).node = "reviewer"
    /\ state.retries <= 3
    /\ Last(trace).text = "[TONE] Tone not approved: make it more energetic"
    /\ state.is_approved
    /\ Last(trace).route = "generate_image"

\* C35 - The step ceiling is unreachable: a run executes at most 4 Draft
\* Generator, 4 Compliance Reviewer and 1 Asset Producer steps, 9 in all, no
\* state has a step left to run with the recursion limit used up, and every
\* run that has returned returned a result record.
C35_StepCeilingUnreachable ==
    /\ Len(Drafts) <= 4
    /\ Len(Reviews) <= 4
    /\ Len(Assets) <= 1
    /\ steps <= 9
    /\ ~(pc \in Nodes /\ steps >= recursion_limit)
    /\ pc = "returned" => DOMAIN result # {}

\* C35 witness: the longest run, of 9 steps, has returned its record.
C35_Witness == ReturnedRecord /\ steps = 9 /\ Len(Drafts) = 4 /\ Len(Reviews) = 4

\* C36 - Revision always follows a rejection: whenever the Draft Generator
\* is about to run on a non-empty feedback history, the latest entry holds
\* the marker neither in upper case nor in any other case, and the request of
\* a Draft Generator step is the request from the brief alone on the first
\* step of a run and carries the previous feedback on every later one.
C36_RevisionFollowsRejection ==
    /\ (pc = "writer" /\ state.review_feedback # <<>>) =>
          /\ ~Contains(Latest(state), "APPROVED")
          /\ ~SignalsApproval(Latest(state))
    /\ (trace # <<>> /\ Last(trace).node = "writer") =>
          /\ user_message = BriefRequest(state) <=> Len(Drafts) = 1
          /\ Contains(user_message, "\n\nPrevious feedback: ") <=> Len(Drafts) >= 2

\* C36 witness: the second draft was requested with the feedback of the
\* first review.
C36_Witness ==
    /\ Len(Drafts) = 2
    /\ Last(trace).node = "writer"
    /\ Contains(user_message, "\n\nPrevious feedback: " \o state.review_feedback[1])

\* C37 - Unapproved completion only at the ceiling: the Asset Producer is
\* entered only with is_approved true or retries = 4; a run that is over
\* with is_approved false has retries = 4 and 4 feedback entries, all
\* rejections, and a run that is over with retries below 4 has is_approved
\* true.
C37_UnapprovedOnlyAtCeiling ==
    /\ pc = "art_director" => (state.is_approved \/ state.retries = 4)
    /\ (pc \in {"END", "returned"} /\ ~state.is_approved) =>
          /\ state.retries = 4
          /\ Len(state.review_feedback) = 4
          /\ \A i \in 1..4 : ~SignalsApproval(state.review_feedback[i])
    /\ (pc \in {"END", "returned"} /\ state.retries < 4) => state.is_approved

\* C37 witness: an unapproved run has returned after its fourth attempt.
C37_Witness ==
    /\ ReturnedRecord
    /\ ~state.is_approved
    /\ state.retries = 4
    /\ Len(state.review_feedback) = 4

\* C38 - approved_text and is_approved stay coupled: final_approved_text is
\* set exactly if is_approved is true, and when it is set it is the current
\* draft.
C38_ApprovedTextCoupled ==
    /\ state.final_approved_text # None <=> state.is_approved
    /\ state.final_approved_text # None => state.final_approved_text = state.draft_text

\* C38 witness: the third draft was approved after two rejections.
C38_Witness ==
    /\ Len(Drafts) = 3
    /\ Len(Reviews) = 3
    /\ state.is_approved
    /\ state.final_approved_text = state.draft_text
    /\ state.final_approved_text = Drafts[3].text

\* every writer and reviewer call of this run so far has failed
FullyDegraded ==
    \A i \in 1..Len(trace) : trace[i].node \in {"writer", "reviewer"} => ~trace[i].service_ok

\* C39 - Fully degraded runs are all-or-nothing: in a run in which every
\* writer and reviewer call failed, every verdict is the verdict of the
\* rule-based checker on the first 40 characters of the brief, and when the
\* run is over it had either 1 draft, approved at the first review, or 4
\* drafts, rejected alike, with one flag and no approval.
C39_DegradedAllOrNothing ==
    FullyDegraded =>
        /\ \A i \in 1..Len(Reviews) :
              Reviews[i].text = rule_based_feedback(Prefix(state.user_prompt, 40))
        /\ pc \in {"END", "returned"} =>
              \/ /\ Len(Drafts) = 1
                 /\ state.is_approved
                 /\ state.compliance_flags = <<>>
              \/ /\ Len(Drafts) = 4
                 /\ ~state.is_approved
                 /\ state.compliance_flags = << Reviews[1].text >>
                 /\ Reviews[4].route = "generate_image"

\* C39 witness: a fully degraded run has ended after four identical
\* rejections.
C39_Witness ==
    /\ Done
    /\ FullyDegraded
    /\ Len(Drafts) = 4
    /\ ~state.is_approved
    /\ \A i \in 1..4 : Reviews[i].text = "[CLAIM] Remove unverified claim: 'never'"

====
